---- MODULE Spec2Model ----
(***************************************************************************)
(* A model of the grid / navigation / resource-valuation engine of the     *)
(* Halite bot: hlt/game_map.py (GameMap, MapCell) and the objective        *)
(* switching of the game loop in MyBot.py.                                 *)
(*                                                                         *)
(* A Position is a pair <<x, y>>, a Direction a pair <<dx, dy>>.  The      *)
(* grid is a torus of width x height cells; cell.halite_amount,            *)
(* cell.ship and cell.structure are the functions / sets below.            *)
(* Costs of the return-cost map are scaled by 10 (halite + 500 per step    *)
(* instead of halite/10 + 50) so that they stay integers.                  *)
(***************************************************************************)
EXTENDS Integers, Sequences, FiniteSets, Bags, TLC

VARIABLES
    width, height,        \* GameMap.width, GameMap.height
    halite_amount,        \* cell -> MapCell.halite_amount
    ship,                 \* the cells whose MapCell.ship is not None
    structure,            \* cell -> id of MapCell.structure, NoStructure if None
    pc,                   \* position of the running operation
    source, destination,  \* arguments of get_unsafe_moves / _calculate_potential_cell
    possible_moves,       \* result of get_unsafe_moves
    unit,                 \* ship.position of the unit being steered
    carried,              \* ship.halite_amount of that unit
    objective,            \* ship.objective of that unit
    base,                 \* position of the shipyard (base)
    moves,                \* how many moves the unit has made on the way to the base
    id,                   \* the id argument of finding_halite
    order,                \* how the heap breaks ties between equal priorities
    q,                    \* the heap: a bag of <<priority, position>>
    seen,                 \* _calculate_potential_cell: position -> distance
    finalized,            \* position -> how often it was written into seen / cost_map
    potential,            \* _calculate_potential_cell: running potential
    cost_map,             \* dijkstra_map: position -> cost (scaled by 10)
    avg_halite,           \* dijkstra_map: running sum, then the returned signal
    dir_index,            \* finding_halite: index of the direction being evaluated
    potentials,           \* finding_halite: the value given to each direction so far
    potential_highest,    \* finding_halite
    move_dir,             \* finding_halite / navigate_back: chosen direction
    command_queue         \* game loop: the commands of the current turn

gridVars == <<width, height, halite_amount, ship, structure>>
moveVars == <<source, destination, possible_moves>>
unitVars == <<unit, carried, objective, base, id, moves>>
heapVars == <<order, q, seen, finalized, potential, cost_map, avg_halite>>
findVars == <<dir_index, potentials, potential_highest, move_dir>>
vars == <<gridVars, pc, moveVars, unitVars, heapVars, findVars, command_queue>>

----------------------------------------------------------------------------
(* Bounds of the model.                                                    *)

MovesMaxDim == 4       \* get_unsafe_moves: grid extents 1..MovesMaxDim
MaxRaw == 4            \* get_unsafe_moves: raw coordinates -MaxRaw..MaxRaw
UpdMaxDim == 2         \* _update: grid extents 1..UpdMaxDim
MaxAmount == 1         \* _update: amounts -1..MaxAmount arrive on the feed
MaxFeed == 2           \* _update: at most MaxFeed updates per turn
UnitMaxDim == 2        \* game loop: grid extents 1..UnitMaxDim
MaxOver == 1           \* game loop: carried within MaxOver of the threshold
NavMaxDim == 3         \* navigate_back: grid extents 1..NavMaxDim
MaxCost == 2           \* navigate_back: costs 0..MaxCost
DijMaxDim == 3         \* dijkstra_map: grid extents 1..DijMaxDim
HaliteStep == 300      \* dijkstra_map: amounts are multiples of HaliteStep
MaxBackground == 1     \* dijkstra_map: every cell holds 0..MaxBackground steps
MaxLevel == 2          \* dijkstra_map: a rich cell holds 1..MaxLevel steps more
MaxRich == 2           \* dijkstra_map: at most MaxRich rich cells
FindMaxDim == 3        \* finding_halite: grid extents 1..FindMaxDim
MaxShips == 4          \* finding_halite: at most MaxShips occupied cells
FindMaxAmount == 1     \* finding_halite: the one resource cell holds 1..FindMaxAmount

----------------------------------------------------------------------------
(* hlt/positionals.py: Direction and Position.                             *)

North == <<0, -1>>
South == <<0, 1>>
East == <<1, 0>>
West == <<-1, 0>>
Still == <<0, 0>>

\* Direction.get_all_cardinals()
AllCardinals == <<North, South, East, West>>

\* Direction.invert(direction)
Invert(d) == <<-d[1], -d[2]>>

Abs(n) == IF n < 0 THEN -n ELSE n

Min(a, b) == IF a <= b THEN a ELSE b

\* Position.directional_offset(direction)
directional_offset(p, d) == <<p[1] + d[1], p[2] + d[2]>>

\* Position.get_surrounding_cardinals()
get_surrounding_cardinals(p) ==
    [i \in 1..4 |-> directional_offset(p, AllCardinals[i])]

----------------------------------------------------------------------------
(* hlt/game_map.py: MapCell and GameMap.                                   *)

NoStructure == -1

OBJECTIVE_MINE == "MINE"
OBJECTIVE_RETURN == "RETURN"

HALITE_RETURN_VALUE == 500

Cells == (0..(width - 1)) \X (0..(height - 1))

CellsOf(w, h) == (0..(w - 1)) \X (0..(h - 1))

\* GameMap.normalize
normalize(p) == <<p[1] % width, p[2] % height>>

\* GameMap.calculate_distance
calculate_distance(s, t) ==
    LET a == normalize(s)
        b == normalize(t)
        rx == Abs(a[1] - b[1])
        ry == Abs(a[2] - b[2])
    IN  Min(rx, width - rx) + Min(ry, height - ry)

\* GameMap._get_target_direction: <<y_cardinality, x_cardinality>>, Still for None
get_target_direction(s, t) ==
    << IF t[2] > s[2] THEN South ELSE IF t[2] < s[2] THEN North ELSE Still,
       IF t[1] > s[1] THEN East ELSE IF t[1] < s[1] THEN West ELSE Still >>

\* A slip get_unsafe_moves could have: the naive bearing is never inverted.
get_unsafe_moves_never_inverts(s, t) ==
    LET a == normalize(s)
        b == normalize(t)
        card == get_target_direction(a, b)
    IN  (IF Abs(b[1] - a[1]) # 0 THEN <<card[2]>> ELSE <<>>)
        \o (IF Abs(b[2] - a[2]) # 0 THEN <<card[1]>> ELSE <<>>)

\* GameMap.get_unsafe_moves; distance.x < width / 2 is 2 * distance.x < width
get_unsafe_moves(s, t) ==
    LET a == normalize(s)
        b == normalize(t)
        dx == Abs(b[1] - a[1])
        dy == Abs(b[2] - a[2])
        card == get_target_direction(a, b)
    IN  (IF dx # 0
         THEN <<IF 2 * dx < width THEN card[2] ELSE Invert(card[2])>>
         ELSE <<>>)
        \o (IF dy # 0
            THEN <<IF 2 * dy < height THEN card[1] ELSE Invert(card[1])>>
            ELSE <<>>)

\* A slip navigate_back could have: an equal cost overrides the choice (<=).
navigate_back_ties_override(p, dmap) ==
    LET Scan[i \in 0..4] ==
          IF i = 0 THEN <<dmap[p], Still>>
          ELSE LET prev == Scan[i - 1]
                   target_pos == normalize(directional_offset(p, AllCardinals[i]))
               IN  IF dmap[target_pos] <= prev[1]
                   THEN <<dmap[target_pos], AllCardinals[i]>>
                   ELSE prev
    IN  Scan[4][2]

\* GameMap.navigate_back: Scan[i] is <<cost, move_dir>> after i directions
navigate_back(p, dmap) ==
    LET Scan[i \in 0..4] ==
          IF i = 0 THEN <<dmap[p], Still>>
          ELSE LET prev == Scan[i - 1]
                   target_pos == normalize(directional_offset(p, AllCardinals[i]))
               IN  IF dmap[target_pos] < prev[1]
                   THEN <<dmap[target_pos], AllCardinals[i]>>
                   ELSE prev
    IN  Scan[4][2]

----------------------------------------------------------------------------
(* Values of the variables an operation does not use.                      *)

IdleMoves == source = <<0, 0>> /\ destination = <<0, 0>> /\ possible_moves = <<>>

IdleUnit ==
    /\ unit = <<0, 0>> /\ carried = 0 /\ objective = OBJECTIVE_MINE
    /\ base = <<0, 0>> /\ id = 0 /\ moves = 0 /\ command_queue = <<>>

IdleHeap ==
    /\ order = "xy" /\ q = EmptyBag /\ seen = <<>> /\ finalized = <<>>
    /\ potential = 0 /\ cost_map = <<>> /\ avg_halite = 0

IdleFind ==
    /\ dir_index = 0 /\ potentials = <<>> /\ potential_highest = 0
    /\ move_dir = Still

EmptyGrid(w, h) ==
    /\ width = w /\ height = h
    /\ halite_amount = [c \in CellsOf(w, h) |-> 0]
    /\ ship = {}
    /\ structure = [c \in CellsOf(w, h) |-> NoStructure]

----------------------------------------------------------------------------
(* get_unsafe_moves on raw coordinates (C7).                               *)

RawCoords == (-MaxRaw)..MaxRaw

InitMoves ==
    /\ \E w \in 1..MovesMaxDim, h \in 1..MovesMaxDim : EmptyGrid(w, h)
    /\ source \in RawCoords \X RawCoords
    /\ destination \in RawCoords \X RawCoords
    /\ possible_moves = <<>>
    /\ pc = "get_unsafe_moves"
    /\ IdleUnit /\ IdleHeap /\ IdleFind

GetUnsafeMoves ==
    /\ pc = "get_unsafe_moves"
    /\ possible_moves' = get_unsafe_moves(source, destination)
    /\ pc' = "moves_done"
    /\ UNCHANGED <<gridVars, source, destination, unitVars, heapVars, findVars,
                   command_queue>>

NextMoves == GetUnsafeMoves

SpecMoves == InitMoves /\ [][NextMoves]_vars

\* The number of axes on which the normalized positions differ.
DifferingAxes(s, t) ==
    (IF normalize(s)[1] # normalize(t)[1] THEN 1 ELSE 0)
    + (IF normalize(s)[2] # normalize(t)[2] THEN 1 ELSE 0)

\* C7: get_unsafe_moves returns the empty list exactly when the normalized
\* source and destination are equal, and otherwise one direction per
\* differing axis, each a cardinal direction one step along which brings
\* the source exactly 1 closer (toroidal distance) to the destination.
C7_UnsafeMovesApproach ==
    pc = "moves_done" =>
        /\ (possible_moves = <<>>) <=> (normalize(source) = normalize(destination))
        /\ Len(possible_moves) = DifferingAxes(source, destination)
        /\ \A i \in 1..Len(possible_moves) :
              /\ possible_moves[i] \in {North, South, East, West}
              /\ calculate_distance(directional_offset(source, possible_moves[i]),
                                    destination)
                    = calculate_distance(source, destination) - 1

\* C7 witness: a delta of exactly half the extent, on both axes, raw
\* coordinates out of range.
C7_Witness ==
    /\ pc = "moves_done"
    /\ width = 4 /\ height = 2
    /\ source = <<-1, 3>> /\ destination = <<1, 0>>
    /\ Len(possible_moves) = 2

----------------------------------------------------------------------------
(* The per-turn map update (C6).                                           *)

\* GameMap._update, the second loop: each update of the feed, in order,
\* overwrites the halite_amount of the cell it addresses.
RECURSIVE apply_updates(_, _)
apply_updates(h, feed) ==
    IF feed = <<>> THEN h
    ELSE LET u == Head(feed)
         IN  apply_updates([h EXCEPT ![normalize(<<u[1], u[2]>>)] = u[3]],
                           Tail(feed))

Feeds ==
    UNION {[1..n -> (0..(width - 1)) \X (0..(height - 1)) \X ((-1)..MaxAmount)] :
           n \in 0..MaxFeed}

InitUpdate ==
    /\ \E w \in 1..UpdMaxDim, h \in 1..UpdMaxDim :
          /\ width = w /\ height = h
          /\ halite_amount \in [CellsOf(w, h) -> 0..MaxAmount]
          /\ structure = [c \in CellsOf(w, h) |-> NoStructure]
    /\ ship = {}
    /\ pc = "update"
    /\ IdleMoves /\ IdleUnit /\ IdleHeap /\ IdleFind

\* GameMap._update: every cell's ship is cleared, then the feed is applied.
Update ==
    /\ pc = "update"
    /\ \E feed \in Feeds :
          halite_amount' = apply_updates(halite_amount, feed)
    /\ ship' = {}
    /\ UNCHANGED <<width, height, structure, pc, moveVars, unitVars, heapVars,
                   findVars, command_queue>>

\* MapCell.mark_unsafe, called for the ships of the new frame.
MarkUnsafe ==
    /\ pc = "update"
    /\ \E c \in Cells : ship' = ship \cup {c}
    /\ UNCHANGED <<width, height, halite_amount, structure, pc, moveVars,
                   unitVars, heapVars, findVars, command_queue>>

NextUpdate == Update \/ MarkUnsafe

SpecUpdate == InitUpdate /\ [][NextUpdate]_vars

\* C6: after any sequence of turns every cell's resource amount is
\* non-negative (a negative amount on the feed is rejected).
C6_AmountsNonNegative ==
    \A c \in Cells : halite_amount[c] >= 0

----------------------------------------------------------------------------
(* The objective switching of the game loop (C9).                          *)

CarriedValues ==
    {0} \cup ((HALITE_RETURN_VALUE - MaxOver)..(HALITE_RETURN_VALUE + MaxOver))

\* A slip the threshold test could have: >= instead of >.
exceeds_return_value_or_equal(h) == h >= HALITE_RETURN_VALUE

\* MyBot.py line 65: ship.halite_amount > HALITE_RETURN_VALUE
exceeds_return_value(h) == h > HALITE_RETURN_VALUE

InitUnit ==
    /\ \E w \in 1..UnitMaxDim, h \in 1..UnitMaxDim :
          /\ EmptyGrid(w, h)
          /\ base \in CellsOf(w, h)
          /\ unit \in CellsOf(w, h)
    /\ carried \in CarriedValues
    /\ objective \in {OBJECTIVE_MINE, OBJECTIVE_RETURN}
    /\ id = 0 /\ moves = 0
    /\ command_queue = <<>>
    /\ pc = "update_frame"
    /\ IdleMoves /\ IdleHeap /\ IdleFind

\* game.update_frame(): the engine reports the unit's position and cargo;
\* command_queue = [].
UpdateFrame ==
    /\ pc = "update_frame"
    /\ unit' \in Cells
    /\ carried' \in CarriedValues
    /\ command_queue' = <<>>
    /\ pc' = "check_halite"
    /\ UNCHANGED <<gridVars, moveVars, objective, base, id, moves, heapVars,
                   findVars>>

\* MyBot.py lines 65-66
CheckHalite ==
    /\ pc = "check_halite"
    /\ objective' = IF exceeds_return_value(carried)
                    THEN OBJECTIVE_RETURN ELSE objective
    /\ pc' = "check_objective"
    /\ UNCHANGED <<gridVars, moveVars, unit, carried, base, id, moves, heapVars,
                   findVars, command_queue>>

\* MyBot.py lines 68-76
ReturnBranch ==
    /\ pc = "check_objective"
    /\ objective = OBJECTIVE_RETURN
    /\ IF calculate_distance(unit, base) = 0
       THEN objective' = OBJECTIVE_MINE /\ UNCHANGED command_queue
       ELSE objective' = objective /\ command_queue' = Append(command_queue, "move")
    /\ pc' = "update_frame"
    /\ UNCHANGED <<gridVars, moveVars, unit, carried, base, id, moves, heapVars,
                   findVars>>

\* MyBot.py lines 77-97: the unit stays still or moves to a neighbour,
\* depending on the halite around it; the objective is not touched.
MineBranch ==
    /\ pc = "check_objective"
    /\ objective = OBJECTIVE_MINE
    /\ \E c \in {"stay_still", "move"} : command_queue' = Append(command_queue, c)
    /\ pc' = "update_frame"
    /\ UNCHANGED <<gridVars, moveVars, unit, carried, objective, base, id, moves,
                   heapVars, findVars>>

NextUnit == UpdateFrame \/ CheckHalite \/ ReturnBranch \/ MineBranch

SpecUnit == InitUnit /\ [][NextUnit]_vars

\* C9: the objective is always MINE or RETURN; it changes from MINE to
\* RETURN exactly at the threshold test of a turn in which the carried
\* resource exceeds HALITE_RETURN_VALUE, and from RETURN to MINE exactly at
\* the objective test of a turn in which the toroidal distance to the base
\* is 0; a unit in RETURN that is not at the base stays in RETURN.
C9_ObjectiveMachine ==
    [][ /\ objective' \in {OBJECTIVE_MINE, OBJECTIVE_RETURN}
        /\ (objective = OBJECTIVE_MINE /\ objective' = OBJECTIVE_RETURN)
              => (pc = "check_halite" /\ carried > HALITE_RETURN_VALUE)
        /\ (pc = "check_halite" /\ pc' # pc /\ carried > HALITE_RETURN_VALUE)
              => objective' = OBJECTIVE_RETURN
        /\ (objective = OBJECTIVE_RETURN /\ objective' = OBJECTIVE_MINE)
              => (pc = "check_objective" /\ calculate_distance(unit, base) = 0)
        /\ (pc = "check_objective" /\ pc' # pc /\ objective = OBJECTIVE_RETURN
               /\ calculate_distance(unit, base) = 0)
              => objective' = OBJECTIVE_MINE
        /\ (objective = OBJECTIVE_RETURN /\ calculate_distance(unit, base) # 0)
              => objective' = OBJECTIVE_RETURN
      ]_vars

\* C9 witness: a unit over the threshold, away from the base, has just been
\* switched to RETURN and its move home is queued.
C9_Witness ==
    /\ pc = "update_frame"
    /\ objective = OBJECTIVE_RETURN
    /\ carried > HALITE_RETURN_VALUE
    /\ calculate_distance(unit, base) # 0
    /\ command_queue = <<"move">>

----------------------------------------------------------------------------
(* navigate_back on arbitrary cost maps (C2).                              *)

\* The cells navigate_back reads: the unit's cell and its four neighbours.
Neighbourhood(p) ==
    {normalize(p)} \cup {normalize(get_surrounding_cardinals(p)[i]) : i \in 1..4}

InitNav ==
    /\ \E w \in 1..NavMaxDim, h \in 1..NavMaxDim : EmptyGrid(w, h)
    /\ unit \in Cells
    /\ \E f \in [Neighbourhood(unit) -> 0..MaxCost], fill \in 0..MaxCost :
          cost_map = [c \in Cells |-> IF c \in Neighbourhood(unit) THEN f[c] ELSE fill]
    /\ carried = 0 /\ objective = OBJECTIVE_RETURN /\ base = <<0, 0>> /\ id = 0
    /\ moves = 0
    /\ command_queue = <<>>
    /\ order = "xy" /\ q = EmptyBag /\ seen = <<>> /\ finalized = <<>>
    /\ potential = 0 /\ avg_halite = 0
    /\ pc = "navigate_back"
    /\ IdleMoves /\ IdleFind

NavigateBack ==
    /\ pc = "navigate_back"
    /\ move_dir' = navigate_back(unit, cost_map)
    /\ pc' = "nav_done"
    /\ UNCHANGED <<gridVars, moveVars, unitVars, heapVars, dir_index, potentials,
                   potential_highest, command_queue>>

NextNav == NavigateBack

SpecNav == InitNav /\ [][NextNav]_vars

NeighbourCost(i) == cost_map[normalize(directional_offset(unit, AllCardinals[i]))]

\* C2: navigate_back ends with stay or a cardinal direction whose
\* neighbour is strictly cheaper than the unit's cell; it is stay exactly
\* when no neighbour is strictly cheaper, and otherwise the first direction,
\* in enumeration order, that attains the least neighbour cost (an equal
\* cost never overrides the choice).
C2_NavigateBackStrict ==
    pc = "nav_done" =>
        /\ move_dir = Still <=> \A i \in 1..4 : NeighbourCost(i) >= cost_map[unit]
        /\ move_dir # Still =>
              \E i \in 1..4 :
                  /\ move_dir = AllCardinals[i]
                  /\ NeighbourCost(i) < cost_map[unit]
                  /\ \A j \in 1..4 : NeighbourCost(j) >= NeighbourCost(i)
                  /\ \A j \in 1..(i - 1) : NeighbourCost(j) > NeighbourCost(i)

\* C2 witness: the northern neighbour costs as much as the unit's cell and
\* is passed over; a later, equally cheap pair of neighbours is met and the
\* first of them (east) is kept.
C2_Witness ==
    /\ pc = "nav_done"
    /\ width = 3 /\ height = 3
    /\ NeighbourCost(1) = cost_map[unit]
    /\ NeighbourCost(3) < cost_map[unit]
    /\ NeighbourCost(4) = NeighbourCost(3)
    /\ move_dir = East

----------------------------------------------------------------------------
(* The heap of heapq: a bag of <<priority, position>>.  heappop returns a  *)
(* least entry; entries of equal priority are ordered by their positions,  *)
(* by x then y ("xy") or by y then x ("yx").                               *)

Orders == {"xy", "yx"}

PositionBefore(a, b) ==
    IF order = "xy"
    THEN a[1] < b[1] \/ (a[1] = b[1] /\ a[2] < b[2])
    ELSE a[2] < b[2] \/ (a[2] = b[2] /\ a[1] < b[1])

EntryBefore(e, f) ==
    e[1] < f[1] \/ (e[1] = f[1] /\ PositionBefore(e[2], f[2]))

\* heappush(q, e)
heappush(h, e) == h (+) SetToBag({e})

\* the entry heappop(q) returns
heaptop(h) ==
    CHOOSE e \in BagToSet(h) : \A f \in BagToSet(h) : f = e \/ EntryBefore(e, f)

RECURSIVE push_all(_, _)
push_all(h, entries) ==
    IF entries = <<>> THEN h
    ELSE push_all(heappush(h, Head(entries)), Tail(entries))

RECURSIVE SumOver(_, _)
\* the sum of f[c] over the cells c of S
SumOver(f, S) ==
    IF S = {} THEN 0
    ELSE LET c == CHOOSE x \in S : TRUE
         IN  f[c] + SumOver(f, S \ {c})

\* f with f[c] set to v, c added to its domain if need be
Put(f, c, v) == [x \in (DOMAIN f) \cup {c} |-> IF x = c THEN v ELSE f[x]]

----------------------------------------------------------------------------
(* dijkstra_map (C1, C8) and a unit following navigate_back on its cost    *)
(* map (C10).                                                              *)

\* A slip line 262 could have: the amount of the cell left, not the cell entered.
new_cost_of_position(cost, position, neighbour) ==
    cost + halite_amount[position] + 500

\* A slip line 262 could have: the flat cost of a step is left out.
new_cost_without_step(cost, position, neighbour) ==
    cost + halite_amount[neighbour]

\* dijkstra_map line 262, scaled by 10: cost + halite_amount/10 + 50
new_cost(cost, position, neighbour) ==
    cost + halite_amount[neighbour] + 500

\* dijkstra_map lines 259-263: the entries pushed for the neighbours
dijkstra_pushes(cost, position) ==
    [i \in 1..4 |->
        LET neighbour == normalize(get_surrounding_cardinals(position)[i])
        IN  <<new_cost(cost, position, neighbour), neighbour>>]

\* dijkstra_map lines 259-261: what the neighbours add to avg_halite
neighbours_halite(position) ==
    LET n == [i \in 1..4 |-> normalize(get_surrounding_cardinals(position)[i])]
    IN  halite_amount[n[1]] + halite_amount[n[2]]
        + halite_amount[n[3]] + halite_amount[n[4]]

InitDijkstra ==
    /\ \E w \in 1..DijMaxDim, h \in 1..DijMaxDim :
          /\ width = w /\ height = h
          /\ \E b \in 0..MaxBackground, r \in 1..MaxLevel :
             \E rich \in {S \in SUBSET CellsOf(w, h) : Cardinality(S) <= MaxRich} :
                halite_amount = [c \in CellsOf(w, h) |->
                    HaliteStep * (b + IF c \in rich THEN r ELSE 0)]
          /\ structure = [c \in CellsOf(w, h) |-> NoStructure]
          /\ base \in CellsOf(w, h)
    /\ ship = {}
    /\ order \in Orders
    \* dijkstra_map lines 245-248
    /\ q = SetToBag({<<0, base>>})
    /\ cost_map = <<>>
    /\ finalized = <<>>
    /\ avg_halite = 0
    /\ pc = "dijkstra_map"
    /\ unit = base /\ carried = 0 /\ objective = OBJECTIVE_RETURN /\ id = 0
    /\ moves = 0
    /\ command_queue = <<>>
    /\ seen = <<>> /\ potential = 0
    /\ IdleMoves /\ IdleFind

\* dijkstra_map lines 249-263: one turn of the loop
DijkstraStep ==
    /\ pc = "dijkstra_map"
    /\ q # EmptyBag
    /\ LET top == heaptop(q)
           cost == top[1]
           position == top[2]
           rest == q (-) SetToBag({top})
       IN  IF position \in DOMAIN cost_map
           THEN /\ q' = rest
                /\ UNCHANGED <<cost_map, finalized, avg_halite>>
           ELSE /\ avg_halite' = avg_halite + halite_amount[position]
                                 + neighbours_halite(position)
                /\ cost_map' = Put(cost_map, position, cost)
                /\ finalized' = Put(finalized, position,
                                    IF position \in DOMAIN finalized
                                    THEN finalized[position] + 1 ELSE 1)
                /\ q' = push_all(rest, dijkstra_pushes(cost, position))
    /\ UNCHANGED <<gridVars, pc, moveVars, unitVars, order, seen, potential,
                   findVars, command_queue>>

\* dijkstra_map lines 265-266: avg_halite / (width * height), kept as a fraction
DijkstraReturn ==
    /\ pc = "dijkstra_map"
    /\ q = EmptyBag
    /\ avg_halite' = [num |-> avg_halite, den |-> width * height]
    /\ pc' = "dijkstra_done"
    /\ UNCHANGED <<gridVars, moveVars, unitVars, order, q, seen, finalized,
                   potential, cost_map, findVars, command_queue>>

\* A unit in RETURN is somewhere on the grid when the cost map is ready.
PlaceUnit ==
    /\ pc = "dijkstra_done"
    /\ unit' \in Cells
    /\ pc' = "route"
    /\ UNCHANGED <<gridVars, moveVars, carried, objective, base, id, moves,
                   heapVars, findVars, command_queue>>

\* One turn of a unit that moves as navigate_back directs; moves counts the
\* turns in which it did not stay, up to one for every cell of the grid.
RouteStep ==
    /\ pc = "route"
    /\ moves < width * height
    /\ move_dir' = navigate_back(unit, cost_map)
    /\ unit' = normalize(directional_offset(unit, move_dir'))
    /\ moves' = IF move_dir' = Still THEN moves ELSE moves + 1
    /\ command_queue' = <<move_dir'>>
    /\ UNCHANGED <<gridVars, pc, moveVars, carried, objective, base, id,
                   heapVars, dir_index, potentials, potential_highest>>

NextDijkstra == DijkstraStep \/ DijkstraReturn \/ PlaceUnit \/ RouteStep

SpecDijkstra == InitDijkstra /\ [][NextDijkstra]_vars

\* More than any path costs.
Unreached == 1 + SumOver([c \in Cells |-> halite_amount[c] + 500], Cells)

\* One round of Bellman-Ford: the least of D[c] and, over the neighbours n of
\* c, D[n] plus the cost of entering c.
RelaxCell(D, c) ==
    LET via == {D[normalize(get_surrounding_cardinals(c)[i])]
                   + halite_amount[c] + 500 : i \in 1..4}
        best == CHOOSE v \in via : \A u \in via : v <= u
    IN  Min(D[c], best)

RECURSIVE RelaxCells(_, _)
RelaxCells(D, S) ==
    IF S = {} THEN <<>>
    ELSE LET c == CHOOSE x \in S : TRUE
         IN  (c :> RelaxCell(D, c)) @@ RelaxCells(D, S \ {c})

RECURSIVE Relax(_, _)
\* Bellman-Ford: D after k more rounds
Relax(D, k) == IF k = 0 THEN D ELSE Relax(RelaxCells(D, Cells), k - 1)

\* The least cost of a 4-neighbour torus path from the base to each cell, the
\* cost of a path being the sum of halite_amount + 500 over the cells entered.
LeastPathCost ==
    LET far == Unreached
    IN  Relax([c \in Cells |-> IF c = base THEN 0 ELSE far], width * height)

Uniform == \A c \in Cells : halite_amount[c] = halite_amount[base]

DijkstraDone == pc \in {"dijkstra_done", "route"}

\* dijkstra_map has just returned
DijkstraReturned == pc = "dijkstra_done"

\* C1: the cost map of dijkstra_map holds every cell, each finalized once,
\* cost 0 at the base and for every cell the least path cost (sum of
\* halite_amount/10 + 50 over the cells entered, here times 10); on a grid
\* of uniform amount V the cost at toroidal distance d is d * (V/10 + 50).
C1_CostMapIsLeastPathCost ==
    DijkstraReturned =>
        /\ DOMAIN cost_map = Cells
        /\ \A c \in Cells : finalized[c] = 1
        /\ cost_map[base] = 0
        /\ cost_map = LeastPathCost
        /\ Uniform =>
              \A c \in Cells :
                  cost_map[c] = calculate_distance(base, c) * (halite_amount[base] + 500)

\* C1 witness: a 3x3 grid where the two-step paths to the diagonal cell are
\* dearer than a three-step path around them.
C1_Witness ==
    /\ DijkstraReturned
    /\ width = 3 /\ height = 3 /\ base = <<0, 0>>
    /\ halite_amount[<<1, 0>>] = 600 /\ halite_amount[<<0, 1>>] = 600
    /\ halite_amount[<<1, 1>>] = 0
    /\ cost_map[<<1, 1>>] = 1500

\* C8: the returned signal is the sum of the amounts of the cells, each
\* counted once, divided by width * height.
C8_SignalIsMeanAmount ==
    DijkstraReturned =>
        avg_halite.num * (width * height)
            = SumOver(halite_amount, Cells) * avg_halite.den

\* C10: on the cost map of dijkstra_map, navigate_back is stay exactly at
\* the base and elsewhere leads to a strictly cheaper neighbour; so every
\* turn of a unit that moves as directed and is not at the base is a move to
\* a strictly cheaper cell, the unit makes fewer moves than the grid has
\* cells, and once at the base it stays there.
C10_RouteReachesBase ==
    /\ [](DijkstraDone =>
            /\ moves < width * height
            /\ \A p \in Cells :
                  LET d == navigate_back(p, cost_map)
                  IN  /\ d = Still <=> p = base
                      /\ p # base =>
                            cost_map[normalize(directional_offset(p, d))] < cost_map[p])
    /\ [][pc = "route" =>
            /\ unit = base => (unit' = base /\ moves' = moves)
            /\ unit # base => (cost_map[unit'] < cost_map[unit] /\ moves' = moves + 1)
         ]_vars

\* C10 witness: on the 3x3 torus a unit has reached the base in three moves,
\* around the dear cells next to the base, and has then been told to stay.
C10_Witness ==
    /\ pc = "route"
    /\ width = 3 /\ height = 3
    /\ unit = base
    /\ moves = 3
    /\ move_dir = Still

----------------------------------------------------------------------------
(* finding_halite and _calculate_potential_cell (C3, C4, C5).              *)

\* A slip lines 229-232 could have: an occupied cell is expanded through.
expands_always(position) == TRUE

\* _calculate_potential_cell line 218: the neighbours of a cell are pushed
\* (lines 229-232) only inside "if self[position].ship is None"
expands(position) == position \notin ship

\* A slip line 227 could have: the range factor is not squared.
contribution_linear(position, distance) ==
    LET range_factor == (width + height) - distance
    IN  IF structure[position] # NoStructure /\ structure[position] = id
        THEN -1000 * range_factor
        ELSE halite_amount[position] * range_factor

\* _calculate_potential_cell lines 220-227: what an unoccupied cell adds
contribution(position, distance) ==
    LET range_factor == (width + height) - distance
    IN  IF structure[position] # NoStructure /\ structure[position] = id
        THEN -1000 * range_factor
        ELSE halite_amount[position] * range_factor * range_factor

\* _calculate_potential_cell lines 230-232: the entries pushed
potential_pushes(distance, position) ==
    [i \in 1..4 |->
        <<distance + 1, normalize(get_surrounding_cardinals(position)[i])>>]

\* A slip line 188 could have: >= instead of >.
improves_or_equals(value, highest) == value >= highest

\* finding_halite line 188
improves(value, highest) == value > highest

\* The 5x5 example: base at (0,0), unit at (2,0), 100 at (4,0).
ExampleGrid ==
    /\ width = 5 /\ height = 5
    /\ halite_amount = [c \in CellsOf(5, 5) |-> IF c = <<4, 0>> THEN 100 ELSE 0]
    /\ structure = [c \in CellsOf(5, 5) |-> IF c = <<0, 0>> THEN 0 ELSE NoStructure]
    /\ base = <<0, 0>>
    /\ unit = <<2, 0>>
    /\ id = 0

InitFind ==
    /\ \/ \E w \in 1..FindMaxDim, h \in 1..FindMaxDim :
            /\ width = w /\ height = h
            /\ \E a \in 1..FindMaxAmount, rich \in CellsOf(w, h) \cup {<<-1, -1>>} :
                  halite_amount = [c \in CellsOf(w, h) |-> IF c = rich THEN a ELSE 0]
            /\ base = <<0, 0>>
            /\ \E sid \in {NoStructure, 0} :
                  /\ structure = [c \in CellsOf(w, h) |->
                                     IF c = base THEN sid ELSE NoStructure]
                  /\ id \in IF sid = NoStructure THEN {0} ELSE {0, 1}
            /\ unit = <<w - 1, h - 1>>
            /\ ship \in {S \in SUBSET CellsOf(w, h) : Cardinality(S) <= MaxShips}
       \/ /\ ExampleGrid
          /\ ship \in {{}, {unit}}
    /\ order \in Orders
    \* finding_halite lines 177-178
    /\ potential_highest = 0
    /\ move_dir = Still
    /\ dir_index = 0
    /\ potentials = <<>>
    /\ pc = "finding_halite"
    /\ source = unit /\ destination = <<0, 0>> /\ possible_moves = <<>>
    /\ q = EmptyBag /\ seen = <<>> /\ finalized = <<>> /\ potential = 0
    /\ cost_map = <<>> /\ avg_halite = 0
    /\ carried = 0 /\ objective = OBJECTIVE_MINE /\ moves = 0
    /\ command_queue = <<>>

\* finding_halite lines 188-190 for the direction just valued
Compare(value) ==
    /\ potentials' = Append(potentials, value)
    /\ IF improves(value, potential_highest)
       THEN /\ potential_highest' = value
            /\ move_dir' = AllCardinals[dir_index']
       ELSE UNCHANGED <<potential_highest, move_dir>>

\* finding_halite lines 180-190, an occupied neighbour: potential = 0
FindOccupied ==
    /\ pc = "finding_halite"
    /\ dir_index < 4
    /\ dir_index' = dir_index + 1
    /\ LET position == normalize(directional_offset(unit, AllCardinals[dir_index']))
       IN  /\ position \in ship
           /\ Compare(0)
    /\ UNCHANGED <<gridVars, pc, moveVars, unitVars, heapVars, command_queue>>

\* finding_halite lines 180-186 and _calculate_potential_cell lines 203-208:
\* the call for an unoccupied neighbour
FindCall ==
    /\ pc = "finding_halite"
    /\ dir_index < 4
    /\ dir_index' = dir_index + 1
    /\ LET position == normalize(directional_offset(unit, AllCardinals[dir_index']))
       IN  /\ position \notin ship
           /\ source' = position
           /\ q' = heappush(EmptyBag, <<0, position>>)
    /\ seen' = <<>>
    /\ finalized' = <<>>
    /\ potential' = 0
    /\ pc' = "calculate_potential"
    /\ UNCHANGED <<gridVars, destination, possible_moves, unitVars, order,
                   cost_map, avg_halite, potentials, potential_highest, move_dir,
                   command_queue>>

\* _calculate_potential_cell lines 209-232: one turn of the loop
PotentialStep ==
    /\ pc = "calculate_potential"
    /\ q # EmptyBag
    /\ LET top == heaptop(q)
           distance == top[1]
           position == top[2]
           rest == q (-) SetToBag({top})
       IN  IF position \in DOMAIN seen
           THEN /\ q' = rest
                /\ UNCHANGED <<seen, finalized, potential>>
           ELSE /\ seen' = Put(seen, position, distance)
                /\ finalized' = Put(finalized, position,
                                    IF position \in DOMAIN finalized
                                    THEN finalized[position] + 1 ELSE 1)
                /\ IF expands(position)
                   THEN /\ potential' = potential + contribution(position, distance)
                        /\ q' = push_all(rest, potential_pushes(distance, position))
                   ELSE /\ potential' = potential
                        /\ q' = rest
    /\ UNCHANGED <<gridVars, pc, moveVars, unitVars, order, cost_map, avg_halite,
                   findVars, command_queue>>

\* _calculate_potential_cell line 236 and finding_halite lines 188-190
PotentialReturn ==
    /\ pc = "calculate_potential"
    /\ q = EmptyBag
    /\ UNCHANGED dir_index
    /\ Compare(potential)
    /\ pc' = "finding_halite"
    /\ UNCHANGED <<gridVars, moveVars, unitVars, heapVars, command_queue>>

\* finding_halite line 192
FindReturn ==
    /\ pc = "finding_halite"
    /\ dir_index = 4
    /\ pc' = "find_done"
    /\ UNCHANGED <<gridVars, moveVars, unitVars, heapVars, findVars, command_queue>>

NextFind == FindOccupied \/ FindCall \/ PotentialStep \/ PotentialReturn \/ FindReturn

SpecFind == InitFind /\ [][NextFind]_vars

\* _calculate_potential_cell has emptied its queue and is about to return
PotentialFinished == pc = "calculate_potential" /\ q = EmptyBag

Neighbours(p) == {normalize(get_surrounding_cardinals(p)[i]) : i \in 1..4}

RECURSIVE Flood(_, _, _)
\* Breadth-first layers: dist maps the cells found so far to their layer,
\* frontier is layer d; only unoccupied cells pass the flood on.
Flood(dist, frontier, d) ==
    LET next == (UNION {Neighbours(c) : c \in frontier \ ship}) \ DOMAIN dist
    IN  IF next = {} THEN dist
        ELSE Flood(dist @@ [c \in next |-> d + 1], next, d + 1)

\* cell -> length of the shortest 4-neighbour path from src all of whose
\* cells before the last are unoccupied, for the cells that have such a path
OpenDistances(src) == Flood((src :> 0), {src}, 0)

\* The potential of src by layers: the contributions of the unoccupied cells
\* of OpenDistances(src).
LayeredPotential(src) ==
    LET dist == OpenDistances(src)
        open == (DOMAIN dist) \ ship
    IN  SumOver([c \in open |-> contribution(c, dist[c])], open)

AllNeighboursOccupied(p) == Neighbours(p) \subseteq ship

\* C5 as claimed: a candidate whose four neighbours are all occupied has
\* potential 0, whatever it holds.
C5_SurroundedIsZero ==
    (PotentialFinished /\ AllNeighboursOccupied(source)) => potential = 0

OwnStructure(p) == structure[p] # NoStructure /\ structure[p] = id

\* C5 amended: for an unoccupied candidate whose four neighbours are all
\* occupied, _calculate_potential_cell returns the candidate's own
\* contribution: -1000 * (width + height) if it holds the structure with the
\* querying id, else its amount * (width + height)^2; so 0 only if it holds
\* no resource.  finding_halite returns stay for a unit each of whose
\* candidates is occupied, or has all neighbours occupied and holds no
\* resource or the querying id's structure.
C5_SurroundedIsOwnContribution ==
    /\ (PotentialFinished /\ AllNeighboursOccupied(source)) =>
          potential = IF OwnStructure(source)
                      THEN -1000 * (width + height)
                      ELSE halite_amount[source] * (width + height) * (width + height)
    /\ (pc = "find_done"
          /\ \A i \in 1..4 :
                LET p == normalize(directional_offset(unit, AllCardinals[i]))
                IN  \/ p \in ship
                    \/ /\ AllNeighboursOccupied(p)
                       /\ (halite_amount[p] = 0 \/ OwnStructure(p)))
          => move_dir = Still

\* C5 witness: on the 3x3 torus a candidate holding resource, all four
\* neighbours occupied, has a positive potential.
C5_Witness ==
    /\ PotentialFinished
    /\ width = 3 /\ height = 3
    /\ AllNeighboursOccupied(source)
    /\ halite_amount[source] > 0
    /\ potential > 0

Candidate(i) == normalize(directional_offset(unit, AllCardinals[i]))

\* the value finding_halite gives direction i
CandidateValue(i) ==
    IF Candidate(i) \in ship THEN 0 ELSE LayeredPotential(Candidate(i))

IsExample ==
    /\ width = 5 /\ height = 5 /\ unit = <<2, 0>>
    /\ halite_amount[<<4, 0>>] = 100

\* C4: finding_halite values the four neighbours in enumeration order, an
\* occupied one at 0 and an unoccupied one at its potential, and returns the
\* first direction that attains the greatest value if that is positive, and
\* stay otherwise; so never a direction to an occupied cell.  In the 5x5
\* example it returns the direction from (2,0) toward (3,0).
C4_FirstStrictMaximum ==
    pc = "find_done" =>
        /\ potentials = [i \in 1..4 |-> CandidateValue(i)]
        /\ (\A i \in 1..4 : potentials[i] <= 0) => move_dir = Still
        /\ (\E i \in 1..4 : potentials[i] > 0) =>
              \E i \in 1..4 :
                  /\ move_dir = AllCardinals[i]
                  /\ potentials[i] > 0
                  /\ \A j \in 1..4 : potentials[j] <= potentials[i]
                  /\ \A j \in 1..(i - 1) : potentials[j] < potentials[i]
        /\ move_dir # Still =>
              normalize(directional_offset(unit, move_dir)) \notin ship
        /\ IsExample => move_dir = East

\* C4 witness: the 5x5 example has been decided, with the unit's own cell
\* occupied and east the only direction of positive value.
C4_Witness ==
    /\ pc = "find_done"
    /\ IsExample
    /\ unit \in ship
    /\ move_dir = East
    /\ potentials = <<-2100, -2100, 100, -2600>>

====
